---- MODULE Spec2Model ----
(***************************************************************************)
(* List Handler API (helix90/list-handler): users, bearer tokens, lists    *)
(* and list items.  One action per request handler of app/routers; the     *)
(* database tables are the state.  A handler is an operator from its       *)
(* inputs and the database to [resp, db]: the response and the database    *)
(* its session commits (one unit of work per request).                     *)
(***************************************************************************)
EXTENDS Integers, FiniteSets, TLC

VARIABLES
    users,      \* table users:      id -> [username, email, hashed_password, is_active]
    lists,      \* table lists:      id -> [user_id, name, description]
    items,      \* table list_items: id -> [list_id, content, is_completed]
    tokens,     \* bearer tokens issued by login and held by clients
    now,        \* the clock, in minutes
    inflight    \* worker -> the unit of work its session holds between the
                \* handler's queries and its commit, or Idle

vars == <<users, lists, items, tokens, now, inflight>>

----------------------------------------------------------------------------
(* Bounds and input domains *)

MaxLists == 2
MaxItems == 1
\* tokens clients hold at once, and how long the clock is watched (minutes)
MaxTokens == 2
MaxNow == 31
\* the largest user id given out
MaxUsers == 2

Usernames == {"alice", "bob"}
Emails == {"alice@x.com", "bob@x.com"}
Passwords == {"pw1", "pw2"}
ListNames == {"Groceries"}
Descriptions == {"weekly"}
Contents == {"milk"}
CompletedInputs == {0, 1, 2}

\* Python's None: an absent optional field, a NULL column
None == "None"

\* path segments a client can put where the lists router expects {user_id}
PathUserIds == {"me", "1", "2"}
\* ids a client can put in a path: every id a row can have, and one no row has
ListIds == 1..(MaxLists + 1)
ItemIds == 1..(MaxItems + 1)

ACCESS_TOKEN_EXPIRE_MINUTES == 30

\* server processes on the one database file, each serving one request at a time
Workers == {"w1", "w2"}

Idle == [op |-> "idle"]

----------------------------------------------------------------------------
(* Helpers *)

Max(S) == CHOOSE m \in S : \A n \in S : n <= m

\* INTEGER PRIMARY KEY of SQLite: the next rowid is the largest one plus 1
NextId(table) == IF DOMAIN table = {} THEN 1 ELSE Max(DOMAIN table) + 1

Insert(table, id, row) == [i \in DOMAIN table \cup {id} |-> IF i = id THEN row ELSE table[i]]

Delete(table, ids) == [i \in DOMAIN table \ ids |-> table[i]]

\* FastAPI's validation of a path parameter declared int
IsInt(seg) == seg \in {"1", "2", "3"}

ParseInt(seg) ==
    CASE seg = "1" -> 1
      [] seg = "2" -> 2
      [] seg = "3" -> 3
      [] OTHER -> 0

\* the database a session works on, and what a handler leaves behind
DB == [users |-> users, lists |-> lists, items |-> items]

Response(status, detail, body) == [status |-> status, detail |-> detail, body |-> body]

Out(response, db) == [resp |-> response, db |-> db]

\* an Optional[...] = None field of a request body: "is not None"
Given(data, field) == field \in DOMAIN data

ValidationError == Response(422, "value is not a valid integer", {})

----------------------------------------------------------------------------
(* Credential store, token service, authentication gate (app/auth.py) *)

get_password_hash(password) == [scheme |-> "bcrypt", digest_of |-> password]

verify_password(password, hashed) == hashed.scheme = "bcrypt" /\ hashed.digest_of = password

NoToken == [sub |-> None, exp |-> 0, sig |-> "none"]

create_access_token(sub, expires_delta) == [sub |-> sub, exp |-> now + expires_delta, sig |-> "valid"]

ForgedToken(sub) == [sub |-> sub, exp |-> now + ACCESS_TOKEN_EXPIRE_MINUTES, sig |-> "invalid"]

\* a bearer string that does not decode as a token
MalformedToken == [sub |-> None, exp |-> 0, sig |-> "malformed"]

\* what a client can put in the Authorization header
Presentable == tokens \cup {NoToken, ForgedToken("alice")}

UserByUsername(db, username) == {u \in DOMAIN db.users : db.users[u].username = username}

UserByEmail(db, email) == {u \in DOMAIN db.users : db.users[u].email = email}

\* the id of the authenticated user, or 0
authenticate_user(db, username, password) ==
    IF UserByUsername(db, username) = {} THEN 0
    ELSE LET u == CHOOSE u \in UserByUsername(db, username) : TRUE
         IN  IF verify_password(password, db.users[u].hashed_password) THEN u ELSE 0

\* the id of the user the token resolves to, or 0 (401)
get_current_user(token, db) ==
    IF token.sig # "valid" THEN 0
    ELSE IF ~(now < token.exp) THEN 0
    ELSE IF UserByUsername(db, token.sub) = {} THEN 0
    ELSE CHOOSE u \in UserByUsername(db, token.sub) : TRUE

Unauthorized == Response(401, "Could not validate credentials", {})

UserResponse(db, u) ==
    [id |-> u, username |-> db.users[u].username, email |-> db.users[u].email,
     is_active |-> db.users[u].is_active]

\* the users row a session adds; is_active is the column default
User(username, email, hashed_password) ==
    [username |-> username, email |-> email, hashed_password |-> hashed_password,
     is_active |-> TRUE]

----------------------------------------------------------------------------
(* app/routers/auth.py *)

\* register without the email check
register_NoEmailCheck(user_data, db) ==
    IF UserByUsername(db, user_data.username) # {}
    THEN Out(Response(400, "Username already registered", {}), db)
    ELSE LET id == NextId(db.users)
             db2 == [db EXCEPT !.users = Insert(db.users, id,
                         User(user_data.username, user_data.email,
                              get_password_hash(user_data.password)))]
         IN  Out(Response(201, "", {UserResponse(db2, id)}), db2)

\* register storing the password as given, not its hash
register_PlainPassword(user_data, db) ==
    IF UserByUsername(db, user_data.username) # {}
    THEN Out(Response(400, "Username already registered", {}), db)
    ELSE IF UserByEmail(db, user_data.email) # {}
    THEN Out(Response(400, "Email already registered", {}), db)
    ELSE LET id == NextId(db.users)
             db2 == [db EXCEPT !.users = Insert(db.users, id,
                         User(user_data.username, user_data.email,
                              [scheme |-> "plain", digest_of |-> user_data.password]))]
         IN  Out(Response(201, "", {UserResponse(db2, id)}), db2)

register(user_data, db) ==
    IF UserByUsername(db, user_data.username) # {}
    THEN Out(Response(400, "Username already registered", {}), db)
    ELSE IF UserByEmail(db, user_data.email) # {}
    THEN Out(Response(400, "Email already registered", {}), db)
    ELSE LET hashed_password == get_password_hash(user_data.password)
             id == NextId(db.users)
             db2 == [db EXCEPT !.users = Insert(db.users, id,
                         User(user_data.username, user_data.email, hashed_password))]
         IN  Out(Response(201, "", {UserResponse(db2, id)}), db2)

\* login telling a missing user from a wrong password
login_LeaksMissingUser(form_data, db) ==
    LET user == authenticate_user(db, form_data.username, form_data.password)
    IN  IF UserByUsername(db, form_data.username) = {}
        THEN Out(Response(404, "User not found", {}), db)
        ELSE IF user = 0
        THEN Out(Response(401, "Incorrect username or password", {}), db)
        ELSE IF ~db.users[user].is_active
        THEN Out(Response(400, "Inactive user", {}), db)
        ELSE LET access_token == create_access_token(db.users[user].username,
                                                     ACCESS_TOKEN_EXPIRE_MINUTES)
             IN  Out(Response(200, "", {[access_token |-> access_token, token_type |-> "bearer"]}), db)

\* login without the is_active check
login_IgnoresActive(form_data, db) ==
    LET user == authenticate_user(db, form_data.username, form_data.password)
    IN  IF user = 0
        THEN Out(Response(401, "Incorrect username or password", {}), db)
        ELSE LET access_token == create_access_token(db.users[user].username,
                                                     ACCESS_TOKEN_EXPIRE_MINUTES)
             IN  Out(Response(200, "", {[access_token |-> access_token, token_type |-> "bearer"]}), db)

\* login passing the lifetime in seconds where minutes are meant
login_TtlInSeconds(form_data, db) ==
    LET user == authenticate_user(db, form_data.username, form_data.password)
    IN  IF user = 0
        THEN Out(Response(401, "Incorrect username or password", {}), db)
        ELSE IF ~db.users[user].is_active
        THEN Out(Response(400, "Inactive user", {}), db)
        ELSE LET access_token == create_access_token(db.users[user].username,
                                                     ACCESS_TOKEN_EXPIRE_MINUTES * 60)
             IN  Out(Response(200, "", {[access_token |-> access_token, token_type |-> "bearer"]}), db)

login(form_data, db) ==
    LET user == authenticate_user(db, form_data.username, form_data.password)
    IN  IF user = 0
        THEN Out(Response(401, "Incorrect username or password", {}), db)
        ELSE IF ~db.users[user].is_active
        THEN Out(Response(400, "Inactive user", {}), db)
        ELSE LET access_token == create_access_token(db.users[user].username,
                                                     ACCESS_TOKEN_EXPIRE_MINUTES)
             IN  Out(Response(200, "", {[access_token |-> access_token, token_type |-> "bearer"]}), db)

\* logout deleting the account it logs out
logout_DeletesUser(token, db) ==
    IF get_current_user(token, db) = 0 THEN Out(Unauthorized, db)
    ELSE Out(Response(200, "Successfully logged out", {}),
             [db EXCEPT !.users = Delete(db.users, {get_current_user(token, db)})])

\* logout without the get_current_user dependency
logout_Unprotected(token, db) == Out(Response(200, "Successfully logged out", {}), db)

logout(token, db) ==
    IF get_current_user(token, db) = 0 THEN Out(Unauthorized, db)
    ELSE Out(Response(200, "Successfully logged out", {}), db)

----------------------------------------------------------------------------
(* app/routers/lists.py, mounted at /users/{user_id}/lists *)

ListResponse(db, l) ==
    [id |-> l, user_id |-> db.lists[l].user_id, name |-> db.lists[l].name,
     description |-> db.lists[l].description]

ListItemResponse(db, i) ==
    [id |-> i, list_id |-> db.items[i].list_id, content |-> db.items[i].content,
     is_completed |-> db.items[i].is_completed]

\* List.items: the rows of list_items that reference the list
ItemsOf(db, l) == {i \in DOMAIN db.items : db.items[i].list_id = l}

ListWithItemsResponse(db, l) ==
    [id |-> l, user_id |-> db.lists[l].user_id, name |-> db.lists[l].name,
     description |-> db.lists[l].description,
     items |-> {ListItemResponse(db, i) : i \in ItemsOf(db, l)}]

\* verify_user_access letting every caller through
verify_user_access_Anyone(current_user, user_id) == TRUE

\* TRUE when the check passes; the handlers answer 403 otherwise
verify_user_access(current_user, user_id) == current_user = user_id

Forbidden == Response(403, "Not enough permissions to access this resource", {})

ListNotFound == Response(404, "List not found", {})

\* db.query(List).filter(List.id == list_id, List.user_id == user_id).first(): the id, or 0
QueryList(db, list_id, user_id) ==
    IF list_id \in DOMAIN db.lists /\ db.lists[list_id].user_id = user_id THEN list_id ELSE 0

\* get_user_lists without the owner filter
get_user_lists_Unfiltered(user_id, token, db) ==
    LET current_user == get_current_user(token, db)
    IN  IF current_user = 0 THEN Out(Unauthorized, db)
        ELSE IF ~IsInt(user_id) THEN Out(ValidationError, db)
        ELSE IF ~verify_user_access(current_user, ParseInt(user_id)) THEN Out(Forbidden, db)
        ELSE Out(Response(200, "", {ListResponse(db, l) : l \in DOMAIN db.lists}), db)

get_user_lists(user_id, token, db) ==
    LET current_user == get_current_user(token, db)
    IN  IF current_user = 0 THEN Out(Unauthorized, db)
        ELSE IF ~IsInt(user_id) THEN Out(ValidationError, db)
        ELSE IF ~verify_user_access(current_user, ParseInt(user_id)) THEN Out(Forbidden, db)
        ELSE Out(Response(200, "", {ListResponse(db, l) :
                     l \in {k \in DOMAIN db.lists : db.lists[k].user_id = ParseInt(user_id)}}), db)

\* create_list without the call of verify_user_access: the owner is the
\* path's user id, whoever calls
create_list_OwnerFromPath(user_id, list_data, token, db) ==
    LET current_user == get_current_user(token, db)
    IN  IF current_user = 0 THEN Out(Unauthorized, db)
        ELSE IF ~IsInt(user_id) THEN Out(ValidationError, db)
        ELSE LET id == NextId(db.lists)
                 db2 == [db EXCEPT !.lists = Insert(db.lists, id,
                             [user_id |-> ParseInt(user_id), name |-> list_data.name,
                              description |-> list_data.description])]
             IN  Out(Response(201, "", {ListResponse(db2, id)}), db2)

create_list(user_id, list_data, token, db) ==
    LET current_user == get_current_user(token, db)
    IN  IF current_user = 0 THEN Out(Unauthorized, db)
        ELSE IF ~IsInt(user_id) THEN Out(ValidationError, db)
        ELSE IF ~verify_user_access(current_user, ParseInt(user_id)) THEN Out(Forbidden, db)
        ELSE LET id == NextId(db.lists)
                 db2 == [db EXCEPT !.lists = Insert(db.lists, id,
                             [user_id |-> ParseInt(user_id), name |-> list_data.name,
                              description |-> list_data.description])]
             IN  Out(Response(201, "", {ListResponse(db2, id)}), db2)

\* get_list looking the list up by id alone
get_list_NoOwnerFilter(user_id, list_id, token, db) ==
    LET current_user == get_current_user(token, db)
    IN  IF current_user = 0 THEN Out(Unauthorized, db)
        ELSE IF ~IsInt(user_id) THEN Out(ValidationError, db)
        ELSE IF ~verify_user_access(current_user, ParseInt(user_id)) THEN Out(Forbidden, db)
        ELSE IF list_id \notin DOMAIN db.lists THEN Out(ListNotFound, db)
        ELSE Out(Response(200, "", {ListWithItemsResponse(db, list_id)}), db)

get_list(user_id, list_id, token, db) ==
    LET current_user == get_current_user(token, db)
    IN  IF current_user = 0 THEN Out(Unauthorized, db)
        ELSE IF ~IsInt(user_id) THEN Out(ValidationError, db)
        ELSE IF ~verify_user_access(current_user, ParseInt(user_id)) THEN Out(Forbidden, db)
        ELSE LET db_list == QueryList(db, list_id, ParseInt(user_id))
             IN  IF db_list = 0 THEN Out(ListNotFound, db)
                 ELSE Out(Response(200, "", {ListWithItemsResponse(db, db_list)}), db)

\* update_list looking the list up by id alone and writing the path's
\* user id into it
update_list_TakesOver(user_id, list_id, list_data, token, db) ==
    LET current_user == get_current_user(token, db)
    IN  IF current_user = 0 THEN Out(Unauthorized, db)
        ELSE IF ~IsInt(user_id) THEN Out(ValidationError, db)
        ELSE IF ~verify_user_access(current_user, ParseInt(user_id)) THEN Out(Forbidden, db)
        ELSE IF list_id \notin DOMAIN db.lists THEN Out(ListNotFound, db)
        ELSE LET row == [db.lists[list_id] EXCEPT !.user_id = ParseInt(user_id)]
                 named == IF Given(list_data, "name")
                          THEN [row EXCEPT !.name = list_data.name] ELSE row
                 described == IF Given(list_data, "description")
                              THEN [named EXCEPT !.description = list_data.description]
                              ELSE named
                 db2 == [db EXCEPT !.lists[list_id] = described]
             IN  Out(Response(200, "", {ListResponse(db2, list_id)}), db2)

\* update_list writing every field of the body, the unset ones as None
update_list_NullsUnset(user_id, list_id, list_data, token, db) ==
    LET current_user == get_current_user(token, db)
    IN  IF current_user = 0 THEN Out(Unauthorized, db)
        ELSE IF ~IsInt(user_id) THEN Out(ValidationError, db)
        ELSE IF ~verify_user_access(current_user, ParseInt(user_id)) THEN Out(Forbidden, db)
        ELSE LET db_list == QueryList(db, list_id, ParseInt(user_id))
             IN  IF db_list = 0 THEN Out(ListNotFound, db)
                 ELSE LET row == db.lists[db_list]
                          named == IF Given(list_data, "name")
                                   THEN [row EXCEPT !.name = list_data.name] ELSE row
                          described == [named EXCEPT !.description =
                                           IF Given(list_data, "description")
                                           THEN list_data.description ELSE None]
                          db2 == [db EXCEPT !.lists[db_list] = described]
                      IN  Out(Response(200, "", {ListResponse(db2, db_list)}), db2)

update_list(user_id, list_id, list_data, token, db) ==
    LET current_user == get_current_user(token, db)
    IN  IF current_user = 0 THEN Out(Unauthorized, db)
        ELSE IF ~IsInt(user_id) THEN Out(ValidationError, db)
        ELSE IF ~verify_user_access(current_user, ParseInt(user_id)) THEN Out(Forbidden, db)
        ELSE LET db_list == QueryList(db, list_id, ParseInt(user_id))
             IN  IF db_list = 0 THEN Out(ListNotFound, db)
                 ELSE LET row == db.lists[db_list]
                          named == IF Given(list_data, "name")
                                   THEN [row EXCEPT !.name = list_data.name] ELSE row
                          described == IF Given(list_data, "description")
                                       THEN [named EXCEPT !.description = list_data.description]
                                       ELSE named
                          db2 == [db EXCEPT !.lists[db_list] = described]
                      IN  Out(Response(200, "", {ListResponse(db2, db_list)}), db2)

\* delete_list deleting the lists row alone
delete_list_NoCascade(user_id, list_id, token, db) ==
    LET current_user == get_current_user(token, db)
    IN  IF current_user = 0 THEN Out(Unauthorized, db)
        ELSE IF ~IsInt(user_id) THEN Out(ValidationError, db)
        ELSE IF ~verify_user_access(current_user, ParseInt(user_id)) THEN Out(Forbidden, db)
        ELSE IF QueryList(db, list_id, ParseInt(user_id)) = 0 THEN Out(ListNotFound, db)
        ELSE Out(Response(204, "", {}), [db EXCEPT !.lists = Delete(db.lists, {list_id})])

\* db.delete(db_list) with cascade="all, delete-orphan" on List.items: the
\* unit of work deletes the list's items and the list in one commit
delete_list(user_id, list_id, token, db) ==
    LET current_user == get_current_user(token, db)
    IN  IF current_user = 0 THEN Out(Unauthorized, db)
        ELSE IF ~IsInt(user_id) THEN Out(ValidationError, db)
        ELSE IF ~verify_user_access(current_user, ParseInt(user_id)) THEN Out(Forbidden, db)
        ELSE LET db_list == QueryList(db, list_id, ParseInt(user_id))
             IN  IF db_list = 0 THEN Out(ListNotFound, db)
                 ELSE Out(Response(204, "", {}),
                          [db EXCEPT !.items = Delete(db.items, ItemsOf(db, db_list)),
                                     !.lists = Delete(db.lists, {db_list})])

----------------------------------------------------------------------------
(* app/routers/items.py, mounted at /users/me/lists/{list_id}/items *)

\* verify_list_access without the owner filter
verify_list_access_AnyOwner(current_user, list_id, db) ==
    IF list_id \in DOMAIN db.lists THEN list_id ELSE 0

\* the id of the list, or 0 (404)
verify_list_access(current_user, list_id, db) == QueryList(db, list_id, current_user)

ItemNotFound == Response(404, "Item not found", {})

\* the item query filtering by id alone
QueryItem_AnyList(db, item_id, list_id) ==
    IF item_id \in DOMAIN db.items THEN item_id ELSE 0

\* db.query(ListItem).filter(ListItem.id == item_id, ListItem.list_id == list_id).first()
QueryItem(db, item_id, list_id) ==
    IF item_id \in DOMAIN db.items /\ db.items[item_id].list_id = list_id THEN item_id ELSE 0

\* get_list_items without the get_current_user dependency
get_list_items_Unprotected(list_id, token, db) ==
    IF list_id \notin DOMAIN db.lists THEN Out(ListNotFound, db)
    ELSE Out(Response(200, "", {ListItemResponse(db, i) : i \in ItemsOf(db, list_id)}), db)

get_list_items(list_id, token, db) ==
    LET current_user == get_current_user(token, db)
    IN  IF current_user = 0 THEN Out(Unauthorized, db)
        ELSE IF verify_list_access(current_user, list_id, db) = 0 THEN Out(ListNotFound, db)
        ELSE Out(Response(200, "", {ListItemResponse(db, i) : i \in ItemsOf(db, list_id)}), db)

\* create_list_item without the list check
create_list_item_Unchecked(list_id, item_data, token, db) ==
    LET current_user == get_current_user(token, db)
    IN  IF current_user = 0 THEN Out(Unauthorized, db)
        ELSE LET id == NextId(db.items)
                 db2 == [db EXCEPT !.items = Insert(db.items, id,
                             [list_id |-> list_id, content |-> item_data.content,
                              is_completed |-> item_data.is_completed])]
             IN  Out(Response(201, "", {ListItemResponse(db2, id)}), db2)

create_list_item(list_id, item_data, token, db) ==
    LET current_user == get_current_user(token, db)
    IN  IF current_user = 0 THEN Out(Unauthorized, db)
        ELSE IF verify_list_access(current_user, list_id, db) = 0 THEN Out(ListNotFound, db)
        ELSE LET id == NextId(db.items)
                 db2 == [db EXCEPT !.items = Insert(db.items, id,
                             [list_id |-> list_id, content |-> item_data.content,
                              is_completed |-> item_data.is_completed])]
             IN  Out(Response(201, "", {ListItemResponse(db2, id)}), db2)

\* update_list_item writing is_completed always, with the schema default
\* of ListItemBase when the body does not give it
update_list_item_DefaultsUnset(list_id, item_id, item_data, token, db) ==
    LET current_user == get_current_user(token, db)
    IN  IF current_user = 0 THEN Out(Unauthorized, db)
        ELSE IF verify_list_access(current_user, list_id, db) = 0 THEN Out(ListNotFound, db)
        ELSE LET db_item == QueryItem(db, item_id, list_id)
             IN  IF db_item = 0 THEN Out(ItemNotFound, db)
                 ELSE LET row == db.items[db_item]
                          worded == IF Given(item_data, "content")
                                    THEN [row EXCEPT !.content = item_data.content] ELSE row
                          marked == [worded EXCEPT !.is_completed =
                                        IF Given(item_data, "is_completed")
                                        THEN item_data.is_completed ELSE 0]
                          db2 == [db EXCEPT !.items[db_item] = marked]
                      IN  Out(Response(200, "", {ListItemResponse(db2, db_item)}), db2)

update_list_item(list_id, item_id, item_data, token, db) ==
    LET current_user == get_current_user(token, db)
    IN  IF current_user = 0 THEN Out(Unauthorized, db)
        ELSE IF verify_list_access(current_user, list_id, db) = 0 THEN Out(ListNotFound, db)
        ELSE LET db_item == QueryItem(db, item_id, list_id)
             IN  IF db_item = 0 THEN Out(ItemNotFound, db)
                 ELSE LET row == db.items[db_item]
                          worded == IF Given(item_data, "content")
                                    THEN [row EXCEPT !.content = item_data.content] ELSE row
                          marked == IF Given(item_data, "is_completed")
                                    THEN [worded EXCEPT !.is_completed = item_data.is_completed]
                                    ELSE worded
                          db2 == [db EXCEPT !.items[db_item] = marked]
                      IN  Out(Response(200, "", {ListItemResponse(db2, db_item)}), db2)

\* delete_list_item querying the item before it checks the list
delete_list_item_ItemFirst(list_id, item_id, token, db) ==
    LET current_user == get_current_user(token, db)
    IN  IF current_user = 0 THEN Out(Unauthorized, db)
        ELSE LET db_item == QueryItem(db, item_id, list_id)
             IN  IF db_item = 0 THEN Out(ItemNotFound, db)
                 ELSE IF verify_list_access(current_user, list_id, db) = 0
                 THEN Out(ListNotFound, db)
                 ELSE Out(Response(204, "", {}),
                          [db EXCEPT !.items = Delete(db.items, {db_item})])

delete_list_item(list_id, item_id, token, db) ==
    LET current_user == get_current_user(token, db)
    IN  IF current_user = 0 THEN Out(Unauthorized, db)
        ELSE IF verify_list_access(current_user, list_id, db) = 0 THEN Out(ListNotFound, db)
        ELSE LET db_item == QueryItem(db, item_id, list_id)
             IN  IF db_item = 0 THEN Out(ItemNotFound, db)
                 ELSE Out(Response(204, "", {}),
                          [db EXCEPT !.items = Delete(db.items, {db_item})])

toggle_item_completion(list_id, item_id, token, db) ==
    LET current_user == get_current_user(token, db)
    IN  IF current_user = 0 THEN Out(Unauthorized, db)
        ELSE IF verify_list_access(current_user, list_id, db) = 0 THEN Out(ListNotFound, db)
        ELSE LET db_item == QueryItem(db, item_id, list_id)
             IN  IF db_item = 0 THEN Out(ItemNotFound, db)
                 ELSE LET db2 == [db EXCEPT !.items[db_item].is_completed =
                                      IF db.items[db_item].is_completed = 0 THEN 1 ELSE 0]
                      IN  Out(Response(200, "", {ListItemResponse(db2, db_item)}), db2)

----------------------------------------------------------------------------
(* A handler as the two steps another worker's commit can fall between: its
   queries, which leave a unit of work in the session, and db.commit(), which
   flushes that unit of work in one transaction.  The queries run outside a
   transaction and read the rows committed at that moment. *)

\* the handler raised HTTPException in its queries: nothing to commit
Refused(resp) == [op |-> "refused", resp |-> resp]

\* an exception no handler catches
InternalServerError == Response(500, "Internal Server Error", {})

\* register: the two existence checks, then the new User added to the session
register_query(user_data, db) ==
    IF UserByUsername(db, user_data.username) # {}
    THEN Refused(Response(400, "Username already registered", {}))
    ELSE IF UserByEmail(db, user_data.email) # {}
    THEN Refused(Response(400, "Email already registered", {}))
    ELSE [op |-> "register", username |-> user_data.username, email |-> user_data.email,
          hashed_password |-> get_password_hash(user_data.password)]

\* db.commit(): INSERT INTO users; the unique indexes on username and email
\* reject a duplicate with IntegrityError, which register does not catch
register_flush(p, db) ==
    IF UserByUsername(db, p.username) # {} \/ UserByEmail(db, p.email) # {}
    THEN Out(InternalServerError, db)
    ELSE LET id == NextId(db.users)
             db2 == [db EXCEPT !.users = Insert(db.users, id,
                         User(p.username, p.email, p.hashed_password))]
         IN  Out(Response(201, "", {UserResponse(db2, id)}), db2)

\* delete_list: the list query, then db.delete(db_list), which loads
\* List.items to cascade over them
delete_list_query(user_id, list_id, token, db) ==
    LET current_user == get_current_user(token, db)
    IN  IF current_user = 0 THEN Refused(Unauthorized)
        ELSE IF ~IsInt(user_id) THEN Refused(ValidationError)
        ELSE IF ~verify_user_access(current_user, ParseInt(user_id)) THEN Refused(Forbidden)
        ELSE LET db_list == QueryList(db, list_id, ParseInt(user_id))
             IN  IF db_list = 0 THEN Refused(ListNotFound)
                 ELSE [op |-> "delete_list", list_id |-> db_list, items |-> ItemsOf(db, db_list)]

\* db.commit(): DELETE of the loaded items by primary key and of the list, in
\* one transaction (a row already gone is a warning, not an error)
delete_list_flush(p, db) ==
    Out(Response(204, "", {}),
        [db EXCEPT !.items = Delete(db.items, p.items),
                   !.lists = Delete(db.lists, {p.list_id})])

\* create_list_item: verify_list_access, then the new ListItem added to the session
create_list_item_query(list_id, item_data, token, db) ==
    LET current_user == get_current_user(token, db)
    IN  IF current_user = 0 THEN Refused(Unauthorized)
        ELSE IF verify_list_access(current_user, list_id, db) = 0 THEN Refused(ListNotFound)
        ELSE [op |-> "create_list_item", list_id |-> list_id, content |-> item_data.content,
              is_completed |-> item_data.is_completed]

\* db.commit(): INSERT INTO list_items; the engine sets no foreign_keys
\* pragma, so SQLite does not check list_id against lists
create_list_item_flush(p, db) ==
    LET id == NextId(db.items)
        db2 == [db EXCEPT !.items = Insert(db.items, id,
                    [list_id |-> p.list_id, content |-> p.content,
                     is_completed |-> p.is_completed])]
    IN  Out(Response(201, "", {ListItemResponse(db2, id)}), db2)

\* update_list_item: verify_list_access, the item query, then the assignments;
\* the session marks the columns whose value differs from the loaded one
update_list_item_query(list_id, item_id, item_data, token, db) ==
    LET current_user == get_current_user(token, db)
    IN  IF current_user = 0 THEN Refused(Unauthorized)
        ELSE IF verify_list_access(current_user, list_id, db) = 0 THEN Refused(ListNotFound)
        ELSE LET db_item == QueryItem(db, item_id, list_id)
             IN  IF db_item = 0 THEN Refused(ItemNotFound)
                 ELSE [op |-> "update_list_item", item_id |-> db_item,
                       changes |-> [f \in {g \in DOMAIN item_data :
                                               item_data[g] # db.items[db_item][g]}
                                       |-> item_data[f]]]

\* db.commit(): UPDATE list_items SET <the marked columns> WHERE id; no row
\* matched is StaleDataError, which the handler does not catch
update_list_item_flush(p, db) ==
    IF p.item_id \notin DOMAIN db.items THEN Out(InternalServerError, db)
    ELSE LET row == db.items[p.item_id]
             db2 == [db EXCEPT !.items[p.item_id] =
                        [f \in DOMAIN row |->
                            IF f \in DOMAIN p.changes THEN p.changes[f] ELSE row[f]]]
         IN  Out(Response(200, "", {ListItemResponse(db2, p.item_id)}), db2)

\* toggle_item_completion: verify_list_access, the item query, then the new
\* value computed from the loaded one
toggle_item_completion_query(list_id, item_id, token, db) ==
    LET current_user == get_current_user(token, db)
    IN  IF current_user = 0 THEN Refused(Unauthorized)
        ELSE IF verify_list_access(current_user, list_id, db) = 0 THEN Refused(ListNotFound)
        ELSE LET db_item == QueryItem(db, item_id, list_id)
             IN  IF db_item = 0 THEN Refused(ItemNotFound)
                 ELSE [op |-> "toggle_item_completion", item_id |-> db_item,
                       loaded |-> db.items[db_item].is_completed,
                       is_completed |-> IF db.items[db_item].is_completed = 0 THEN 1 ELSE 0]

\* db.commit(): UPDATE list_items SET is_completed = <the computed value> WHERE id
toggle_item_completion_flush(p, db) ==
    IF p.item_id \notin DOMAIN db.items THEN Out(InternalServerError, db)
    ELSE LET db2 == [db EXCEPT !.items[p.item_id].is_completed = p.is_completed]
         IN  Out(Response(200, "", {ListItemResponse(db2, p.item_id)}), db2)

----------------------------------------------------------------------------
(* Request bodies *)

UserRegister == [username : Usernames, email : Emails, password : Passwords]

OAuth2PasswordRequestForm == [username : Usernames, password : Passwords]

ListCreate == [name : ListNames, description : Descriptions \cup {None}]

ListUpdate ==
    {<<>>} \cup [name : ListNames] \cup [description : Descriptions]
           \cup [name : ListNames, description : Descriptions]

ListItemCreate == [content : Contents, is_completed : CompletedInputs]

ListItemUpdate ==
    {<<>>} \cup [content : Contents] \cup [is_completed : CompletedInputs]
           \cup [content : Contents, is_completed : CompletedInputs]

\* the bodies of the requests that run side by side
ConcurrentItemCreate == [content : Contents, is_completed : {0}]

ConcurrentItemUpdate == [content : {"bread"}] \cup [is_completed : {1}]

----------------------------------------------------------------------------
(* One step: a handler serves a request and its session commits *)

Serve(out) ==
    /\ users' = out.db.users
    /\ lists' = out.db.lists
    /\ items' = out.db.items
    /\ now' = now
    /\ inflight' = inflight

Register ==
    \E user_data \in UserRegister :
        /\ register(user_data, DB).resp.status = 201 => NextId(users) <= MaxUsers
        /\ Serve(register(user_data, DB))
        /\ tokens' = tokens

\* the client keeps the token of a 200 response
Login ==
    \E form_data \in OAuth2PasswordRequestForm :
        /\ Cardinality(tokens \cup {b.access_token : b \in login(form_data, DB).resp.body})
               <= MaxTokens
        /\ Serve(login(form_data, DB))
        /\ tokens' = tokens \cup {b.access_token : b \in login(form_data, DB).resp.body}

Logout ==
    \E token \in Presentable :
        /\ Serve(logout(token, DB))
        /\ tokens' = tokens

\* A users row written to the table directly with the active flag off (no
\* endpoint sets the flag); the unique indexes reject a duplicate.
InsertInactiveUser ==
    \E user_data \in UserRegister :
        /\ UserByUsername(DB, user_data.username) = {}
        /\ UserByEmail(DB, user_data.email) = {}
        /\ users' = Insert(users, NextId(users),
                           [User(user_data.username, user_data.email,
                                 get_password_hash(user_data.password))
                            EXCEPT !.is_active = FALSE])
        /\ UNCHANGED <<lists, items, tokens, now, inflight>>

\* A users row deleted from the table directly (no endpoint deletes a user);
\* the user owns no list.  Clients keep the tokens they hold.
RemoveUser ==
    \E u \in DOMAIN users :
        /\ \A l \in DOMAIN lists : lists[l].user_id # u
        /\ users' = Delete(users, {u})
        /\ UNCHANGED <<lists, items, tokens, now, inflight>>

\* a minute passes
Tick ==
    /\ now < MaxNow
    /\ now' = now + 1
    /\ UNCHANGED <<users, lists, items, tokens, inflight>>

GetUserLists ==
    \E token \in Presentable, user_id \in PathUserIds :
        /\ Serve(get_user_lists(user_id, token, DB))
        /\ tokens' = tokens

CreateList ==
    \E token \in Presentable, user_id \in PathUserIds, list_data \in ListCreate :
        /\ create_list(user_id, list_data, token, DB).resp.status = 201 => NextId(lists) <= MaxLists
        /\ Serve(create_list(user_id, list_data, token, DB))
        /\ tokens' = tokens

GetList ==
    \E token \in Presentable, user_id \in PathUserIds, list_id \in ListIds :
        /\ Serve(get_list(user_id, list_id, token, DB))
        /\ tokens' = tokens

UpdateList ==
    \E token \in Presentable, user_id \in PathUserIds, list_id \in ListIds, list_data \in ListUpdate :
        /\ Serve(update_list(user_id, list_id, list_data, token, DB))
        /\ tokens' = tokens

DeleteList ==
    \E token \in Presentable, user_id \in PathUserIds, list_id \in ListIds :
        /\ Serve(delete_list(user_id, list_id, token, DB))
        /\ tokens' = tokens

GetListItems ==
    \E token \in Presentable, list_id \in ListIds :
        /\ Serve(get_list_items(list_id, token, DB))
        /\ tokens' = tokens

CreateListItem ==
    \E token \in Presentable, list_id \in ListIds, item_data \in ListItemCreate :
        /\ create_list_item(list_id, item_data, token, DB).resp.status = 201
               => NextId(items) <= MaxItems
        /\ Serve(create_list_item(list_id, item_data, token, DB))
        /\ tokens' = tokens

UpdateListItem ==
    \E token \in Presentable, list_id \in ListIds, item_id \in ItemIds, item_data \in ListItemUpdate :
        /\ Serve(update_list_item(list_id, item_id, item_data, token, DB))
        /\ tokens' = tokens

DeleteListItem ==
    \E token \in Presentable, list_id \in ListIds, item_id \in ItemIds :
        /\ Serve(delete_list_item(list_id, item_id, token, DB))
        /\ tokens' = tokens

ToggleItemCompletion ==
    \E token \in Presentable, list_id \in ListIds, item_id \in ItemIds :
        /\ Serve(toggle_item_completion(list_id, item_id, token, DB))
        /\ tokens' = tokens

----------------------------------------------------------------------------
(* Steps of requests served side by side by the workers *)

\* worker w runs the handler's queries and holds the unit of work they leave
Hold(w, unit) ==
    /\ inflight[w] = Idle
    /\ unit.op # "refused"
    /\ inflight' = [inflight EXCEPT ![w] = unit]
    /\ UNCHANGED <<users, lists, items, tokens, now>>

\* worker w commits the unit of work it holds
Commit(w, out) ==
    /\ users' = out.db.users
    /\ lists' = out.db.lists
    /\ items' = out.db.items
    /\ inflight' = [inflight EXCEPT ![w] = Idle]
    /\ UNCHANGED <<tokens, now>>

\* no more users are under way than the bound leaves room for
BeginRegister ==
    \E w \in Workers, user_data \in UserRegister :
        /\ NextId(users) + Cardinality({v \in Workers : inflight[v].op = "register"})
               <= MaxUsers
        /\ Hold(w, register_query(user_data, DB))

CommitRegister ==
    \E w \in Workers :
        /\ inflight[w].op = "register"
        /\ Commit(w, register_flush(inflight[w], DB))

BeginDeleteList ==
    \E w \in Workers, token \in tokens, user_id \in PathUserIds, list_id \in ListIds :
        Hold(w, delete_list_query(user_id, list_id, token, DB))

CommitDeleteList ==
    \E w \in Workers :
        /\ inflight[w].op = "delete_list"
        /\ Commit(w, delete_list_flush(inflight[w], DB))

\* no more items are under way than the bound leaves room for
BeginCreateListItem ==
    \E w \in Workers, token \in tokens, list_id \in ListIds, item_data \in ConcurrentItemCreate :
        /\ NextId(items) + Cardinality({v \in Workers : inflight[v].op = "create_list_item"})
               <= MaxItems
        /\ Hold(w, create_list_item_query(list_id, item_data, token, DB))

CommitCreateListItem ==
    \E w \in Workers :
        /\ inflight[w].op = "create_list_item"
        /\ Commit(w, create_list_item_flush(inflight[w], DB))

BeginUpdateListItem ==
    \E w \in Workers, token \in tokens, list_id \in ListIds, item_id \in ItemIds,
       item_data \in ConcurrentItemUpdate :
        Hold(w, update_list_item_query(list_id, item_id, item_data, token, DB))

CommitUpdateListItem ==
    \E w \in Workers :
        /\ inflight[w].op = "update_list_item"
        /\ Commit(w, update_list_item_flush(inflight[w], DB))

BeginToggleItemCompletion ==
    \E w \in Workers, token \in tokens, list_id \in ListIds, item_id \in ItemIds :
        Hold(w, toggle_item_completion_query(list_id, item_id, token, DB))

CommitToggleItemCompletion ==
    \E w \in Workers :
        /\ inflight[w].op = "toggle_item_completion"
        /\ Commit(w, toggle_item_completion_flush(inflight[w], DB))

----------------------------------------------------------------------------
(* Specifications *)

EmptyDB == [users |-> <<>>, lists |-> <<>>, items |-> <<>>]

\* a fresh database, no request served yet
Init ==
    /\ users = <<>>
    /\ lists = <<>>
    /\ items = <<>>
    /\ tokens = {}
    /\ now = 0
    /\ inflight = [w \in Workers |-> Idle]

NextAuth == Register \/ Login \/ Logout \/ InsertInactiveUser

NextStore ==
    \/ GetUserLists \/ CreateList \/ GetList \/ UpdateList \/ DeleteList
    \/ GetListItems \/ CreateListItem \/ UpdateListItem \/ DeleteListItem
    \/ ToggleItemCompletion

Next == NextAuth \/ NextStore

\* the whole service
Spec == Init /\ [][Next]_vars

\* the authentication routes, from a fresh database
SpecAuth == Init /\ [][NextAuth]_vars

\* alice and bob have registered and logged in
Alice == [username |-> "alice", email |-> "alice@x.com", password |-> "pw1"]

Bob == [username |-> "bob", email |-> "bob@x.com", password |-> "pw2"]

InitStore ==
    /\ users = register(Bob, register(Alice, EmptyDB).db).db.users
    /\ lists = <<>>
    /\ items = <<>>
    /\ now = 0
    /\ tokens = {create_access_token(u, ACCESS_TOKEN_EXPIRE_MINUTES) : u \in {"alice", "bob"}}
    /\ inflight = [w \in Workers |-> Idle]

\* the list and item routes, with two users logged in
SpecStore == InitStore /\ [][NextStore]_vars

\* alice and bob have registered; they log in and out as time passes
InitClock ==
    /\ users = register(Bob, register(Alice, EmptyDB).db).db.users
    /\ lists = <<>>
    /\ items = <<>>
    /\ tokens = {}
    /\ now = 0
    /\ inflight = [w \in Workers |-> Idle]

NextClock == Login \/ Logout \/ Tick

SpecClock == InitClock /\ [][NextClock]_vars

\* the authentication routes, with user records removed from the store
NextUsers == Register \/ Login \/ Logout \/ RemoveUser

SpecUsers == Init /\ [][NextUsers]_vars

\* two workers serve register requests side by side, from a fresh database
NextRegisterRace == BeginRegister \/ CommitRegister

SpecRegisterRace == Init /\ [][NextRegisterRace]_vars

\* alice has registered and logged in; two workers serve her list and item
\* requests side by side
InitRace ==
    /\ users = register(Alice, EmptyDB).db.users
    /\ lists = <<>>
    /\ items = <<>>
    /\ now = 0
    /\ tokens = {create_access_token("alice", ACCESS_TOKEN_EXPIRE_MINUTES)}
    /\ inflight = [w \in Workers |-> Idle]

NextRace ==
    \/ CreateList
    \/ BeginDeleteList \/ CommitDeleteList
    \/ BeginCreateListItem \/ CommitCreateListItem
    \/ BeginUpdateListItem \/ CommitUpdateListItem
    \/ BeginToggleItemCompletion \/ CommitToggleItemCompletion

SpecRace == InitRace /\ [][NextRace]_vars

----------------------------------------------------------------------------
(* Properties of the authentication routes (checked under SpecAuth) *)

IncorrectCredentials == Response(401, "Incorrect username or password", {})

Credentials(user_data) == [username |-> user_data.username, password |-> user_data.password]

\* C6: whenever register accepts (username, email, password), a login that
\* follows with the same username and password answers 200 with one bearer
\* token, and the authentication gate resolves that token to the user with
\* that username.
C6_RegisterThenLogin ==
    \A user_data \in UserRegister :
        LET registered == register(user_data, DB)
            logged == login(Credentials(user_data), registered.db)
        IN  registered.resp.status = 201 =>
                /\ logged.resp.status = 200
                /\ Cardinality(logged.resp.body) = 1
                /\ \A b \in logged.resp.body :
                       /\ b.token_type = "bearer"
                       /\ get_current_user(b.access_token, registered.db) # 0
                       /\ registered.db.users[get_current_user(b.access_token, registered.db)].username
                              = user_data.username

\* a registered user holds a token that resolves to them, and a further
\* registration is still accepted
C6_Witness ==
    /\ \E token \in tokens : get_current_user(token, DB) # 0
    /\ \E user_data \in UserRegister : register(user_data, DB).resp.status = 201

\* C7: register with the username of an existing user, or the email of an
\* existing user, answers 400 with the "already registered" detail and
\* commits the database unchanged: no user created, none changed.
C7_RegisterDuplicate ==
    \A user_data \in UserRegister :
        (UserByUsername(DB, user_data.username) # {} \/ UserByEmail(DB, user_data.email) # {}) =>
            /\ register(user_data, DB).resp \in
                   {Response(400, "Username already registered", {}),
                    Response(400, "Email already registered", {})}
            /\ register(user_data, DB).db = DB

\* a user exists, and a request reuses their email under a free username
C7_Witness ==
    \E user_data \in UserRegister :
        /\ UserByUsername(DB, user_data.username) = {}
        /\ UserByEmail(DB, user_data.email) # {}
        /\ register(user_data, DB).resp.status = 400

\* C8: no two distinct users share a username, and no two share an email.
C8_UniqueCredentials ==
    \A u1, u2 \in DOMAIN users :
        u1 # u2 => /\ users[u1].username # users[u2].username
                   /\ users[u1].email # users[u2].email

\* two users are registered
C8_Witness == Cardinality(DOMAIN users) >= 2

\* C9: a login with a username no user has and a login with an existing
\* username and a wrong password get the same response, 401 "Incorrect
\* username or password".
C9_LoginFailureUniform ==
    \A form_data \in OAuth2PasswordRequestForm :
        LET found == UserByUsername(DB, form_data.username)
        IN  (\/ found = {}
             \/ \E u \in found : ~verify_password(form_data.password, users[u].hashed_password))
                => login(form_data, DB).resp = IncorrectCredentials

\* one username is registered and another is not, and both kinds of failing
\* login can be made
C9_Witness ==
    \E missing, wrong \in OAuth2PasswordRequestForm :
        /\ UserByUsername(DB, missing.username) = {}
        /\ \E u \in UserByUsername(DB, wrong.username) :
               ~verify_password(wrong.password, users[u].hashed_password)
        /\ login(missing, DB).resp.status = 401
        /\ login(wrong, DB).resp.status = 401

\* C10: a login for a user whose is_active is false answers 400 "Inactive
\* user" without a token when the password verifies and the ordinary 401
\* when it does not; and 400 is answered in no other case.
C10_LoginInactive ==
    \A form_data \in OAuth2PasswordRequestForm :
        LET found == UserByUsername(DB, form_data.username)
            out == login(form_data, DB)
        IN  /\ \A u \in found :
                   ~users[u].is_active =>
                       IF verify_password(form_data.password, users[u].hashed_password)
                       THEN out.resp = Response(400, "Inactive user", {})
                       ELSE out.resp = IncorrectCredentials
            /\ out.resp.status = 400 =>
                   \E u \in found : /\ ~users[u].is_active
                                    /\ verify_password(form_data.password, users[u].hashed_password)

\* an inactive user exists; the right password gets 400, a wrong one 401
C10_Witness ==
    \E right, wrong \in OAuth2PasswordRequestForm :
        /\ right.username = wrong.username
        /\ \E u \in UserByUsername(DB, right.username) : ~users[u].is_active
        /\ login(right, DB).resp.status = 400
        /\ login(wrong, DB).resp.status = 401

----------------------------------------------------------------------------
(* Properties of the list and item routes (checked under SpecStore) *)

\* the tokens of the current state that resolve to a user
ValidTokens == {token \in Presentable : get_current_user(token, DB) # 0}

\* the path segment that is the decimal form of a user id
OwnSegment(user) == CHOOSE seg \in PathUserIds : IsInt(seg) /\ ParseInt(seg) = user

\* every outcome a request with this token can have on a list or item route
StoreOutcomes(token) ==
    {get_user_lists(u, token, DB) : u \in PathUserIds}
    \cup {create_list(u, d, token, DB) : u \in PathUserIds, d \in ListCreate}
    \cup {get_list(u, l, token, DB) : u \in PathUserIds, l \in ListIds}
    \cup {update_list(u, l, d, token, DB) : u \in PathUserIds, l \in ListIds, d \in ListUpdate}
    \cup {delete_list(u, l, token, DB) : u \in PathUserIds, l \in ListIds}
    \cup {get_list_items(l, token, DB) : l \in ListIds}
    \cup {create_list_item(l, d, token, DB) : l \in ListIds, d \in ListItemCreate}
    \cup {update_list_item(l, i, d, token, DB) : l \in ListIds, i \in ItemIds, d \in ListItemUpdate}
    \cup {delete_list_item(l, i, token, DB) : l \in ListIds, i \in ItemIds}
    \cup {toggle_item_completion(l, i, token, DB) : l \in ListIds, i \in ItemIds}

OwnedBy(db, list_id, user) == list_id \in DOMAIN db.lists /\ db.lists[list_id].user_id = user

\* the response shows no list and no item of a list that is not the caller's
ReturnsOnlyOwn(body, caller, db) ==
    \A b \in body :
        /\ "user_id" \in DOMAIN b => b.user_id = caller /\ OwnedBy(db, b.id, caller)
        /\ "list_id" \in DOMAIN b => OwnedBy(db, b.list_id, caller)
        /\ "items" \in DOMAIN b => \A it \in b.items : OwnedBy(db, it.list_id, caller)

\* the lists of the other users, and the items in them, are as they were
OthersUntouched(caller, db) ==
    \A l \in DOMAIN lists :
        lists[l].user_id # caller =>
            /\ l \in DOMAIN db.lists
            /\ db.lists[l] = lists[l]
            /\ ItemsOf(db, l) = ItemsOf(DB, l)
            /\ \A i \in ItemsOf(DB, l) : db.items[i] = items[i]

\* C1: whatever user id, list id or item id a request authenticated as A
\* carries, its response shows no list or item owned by another user and the
\* database it commits has every other user's lists and items unchanged.
C1_Isolation ==
    \A token \in ValidTokens :
        \A out \in StoreOutcomes(token) :
            /\ ReturnsOnlyOwn(out.resp.body, get_current_user(token, DB), out.db)
            /\ OthersUntouched(get_current_user(token, DB), out.db)

\* bob owns a list with an item in it, and alice, logged in, addresses both
\* by id and by bob's user id, and is refused
C1_Witness ==
    \E token \in ValidTokens, l \in DOMAIN lists, i \in DOMAIN items :
        /\ lists[l].user_id # get_current_user(token, DB)
        /\ items[i].list_id = l
        /\ get_list(OwnSegment(get_current_user(token, DB)), l, token, DB).resp.status = 404
        /\ delete_list(OwnSegment(lists[l].user_id), l, token, DB).resp.status = 403
        /\ toggle_item_completion(l, i, token, DB).resp.status = 404

\* the database without the lists of the users other than user, and their items
WithoutOthers(db, user) ==
    [users |-> db.users,
     lists |-> Delete(db.lists, {l \in DOMAIN db.lists : db.lists[l].user_id # user}),
     items |-> Delete(db.items, {i \in DOMAIN db.items : ~OwnedBy(db, db.items[i].list_id, user)})]

\* C2: get_list answers a caller the same whether the other users' lists are
\* in the database or not, for every path; addressed under the caller's own
\* user id, a list id of another user and a list id of no list both get 404
\* "List not found".
C2_GetListHidesOthers ==
    \A token \in ValidTokens :
        LET caller == get_current_user(token, DB)
        IN  /\ \A u \in PathUserIds, l \in ListIds :
                   get_list(u, l, token, DB).resp = get_list(u, l, token, WithoutOthers(DB, caller)).resp
            /\ \A l \in ListIds :
                   ~OwnedBy(DB, l, caller) =>
                       get_list(OwnSegment(caller), l, token, DB).resp = ListNotFound

\* a caller asks for a list of another user and for a list id no list has
C2_Witness ==
    \E token \in ValidTokens, theirs, nobodys \in ListIds :
        /\ theirs \in DOMAIN lists
        /\ lists[theirs].user_id # get_current_user(token, DB)
        /\ nobodys \notin DOMAIN lists
        /\ get_list(OwnSegment(get_current_user(token, DB)), theirs, token, DB).resp
               = get_list(OwnSegment(get_current_user(token, DB)), nobodys, token, DB).resp

\* C3: when delete_list answers 204, the database it commits has no list of
\* that id and no item whose list_id is that id, and a get_list of that id by
\* the owner then answers 404.
C3_DeleteListCascades ==
    \A token \in ValidTokens, u \in PathUserIds, l \in ListIds :
        LET out == delete_list(u, l, token, DB)
        IN  out.resp.status = 204 =>
                /\ l \notin DOMAIN out.db.lists
                /\ ItemsOf(out.db, l) = {}
                /\ get_list(u, l, token, out.db).resp = ListNotFound

\* the owner deletes a list that has an item
C3_Witness ==
    \E token \in ValidTokens, u \in PathUserIds, l \in ListIds :
        /\ l \in DOMAIN lists
        /\ ItemsOf(DB, l) # {}
        /\ delete_list(u, l, token, DB).resp.status = 204

\* C4: every row of list_items references a row of lists.
C4_ItemsHaveLists == \A i \in DOMAIN items : items[i].list_id \in DOMAIN lists

\* an item is stored in the second list after the first list was deleted
C4_Witness ==
    /\ DOMAIN lists = {2}
    /\ \E i \in DOMAIN items : items[i].list_id = 2

\* C5: with a valid token, GET /users/me/lists answers 200 with the lists of
\* the token's user and POST /users/me/lists answers 201 with a list owned by
\* that user.
C5_MeRoutesServed ==
    \A token \in ValidTokens :
        LET caller == get_current_user(token, DB)
        IN  /\ get_user_lists("me", token, DB).resp =
                   Response(200, "", {ListResponse(DB, l) :
                       l \in {k \in DOMAIN lists : lists[k].user_id = caller}})
            /\ \A list_data \in ListCreate :
                   /\ create_list("me", list_data, token, DB).resp.status = 201
                   /\ \A b \in create_list("me", list_data, token, DB).resp.body :
                          b.user_id = caller

\* every outcome a request with this token can have on a protected route
ProtectedOutcomes(token) == StoreOutcomes(token) \cup {logout(token, DB)}

\* no Authorization header, a malformed bearer string, a token whose
\* signature does not verify (for either username)
Unverified == {NoToken, MalformedToken} \cup {ForgedToken(sub) : sub \in Usernames}

\* C11: every list operation, every item operation and logout, called with
\* no token, a malformed token or a token that does not verify, answers 401
\* and commits users, lists and items unchanged.
C11_UnverifiedIsUnauthorized ==
    \A token \in Unverified :
        \A out \in ProtectedOutcomes(token) :
            /\ out.resp = Unauthorized
            /\ out.db = DB

\* lists and an item are stored, and requests without a token and with a
\* forged token for the owner address them and are refused
C11_Witness ==
    \E l \in DOMAIN lists, i \in DOMAIN items :
        /\ items[i].list_id = l
        /\ get_list_items(l, NoToken, DB).resp.status = 401
        /\ delete_list(OwnSegment(lists[l].user_id), l,
                       ForgedToken(users[lists[l].user_id].username), DB).resp.status = 401
        /\ toggle_item_completion(l, i, MalformedToken, DB).db = DB

\* C15: for every stored item, when toggle_item_completion answers 200 the
\* item's is_completed differs from before, and a second toggle that follows
\* answers 200 and leaves is_completed equal to the value before the first.
C15_ToggleInvolution ==
    \A token \in ValidTokens, l \in ListIds, i \in ItemIds :
        LET first == toggle_item_completion(l, i, token, DB)
            second == toggle_item_completion(l, i, token, first.db)
        IN  first.resp.status = 200 =>
                /\ first.db.items[i].is_completed # items[i].is_completed
                /\ second.resp.status = 200
                /\ second.db.items[i].is_completed = items[i].is_completed

\* C16: every stored item's is_completed is 0 or 1.
C16_CompletedIsBinary == \A i \in DOMAIN items : items[i].is_completed \in {0, 1}

\* update bodies that also carry values no stored row has yet
AnyListItemUpdate ==
    {<<>>} \cup [content : Contents \cup {"bread"}] \cup [is_completed : CompletedInputs]
           \cup [content : Contents \cup {"bread"}, is_completed : CompletedInputs]

AnyListUpdate ==
    {<<>>} \cup [name : ListNames \cup {"Chores"}]
           \cup [description : Descriptions \cup {"monthly"}]
           \cup [name : ListNames \cup {"Chores"}, description : Descriptions \cup {"monthly"}]

\* C17: when update_list_item answers 200, the item keeps its id and its
\* list_id, keeps its is_completed when the body gives no is_completed,
\* keeps its content when the body gives no content, and the response shows
\* the item as stored; the other items and the lists are as they were.
C17_UpdateItemPartial ==
    \A token \in ValidTokens, l \in ListIds, i \in ItemIds, item_data \in AnyListItemUpdate :
        LET out == update_list_item(l, i, item_data, token, DB)
        IN  out.resp.status = 200 =>
                /\ DOMAIN out.db.items = DOMAIN items
                /\ out.db.items[i].list_id = items[i].list_id
                /\ ~Given(item_data, "is_completed") =>
                       out.db.items[i].is_completed = items[i].is_completed
                /\ ~Given(item_data, "content") => out.db.items[i].content = items[i].content
                /\ out.resp.body = {ListItemResponse(out.db, i)}
                /\ \A j \in DOMAIN items \ {i} : out.db.items[j] = items[j]
                /\ out.db.lists = lists

\* a completed item gets a new content and stays completed; given a new
\* is_completed alone, it keeps its content
C17_Witness ==
    \E token \in ValidTokens, l \in ListIds, i \in DOMAIN items :
        /\ items[i].is_completed = 1
        /\ update_list_item(l, i, [content |-> "bread"], token, DB).db.items[i]
               = [list_id |-> l, content |-> "bread", is_completed |-> 1]
        /\ update_list_item(l, i, [is_completed |-> 0], token, DB).db.items[i]
               = [list_id |-> l, content |-> items[i].content, is_completed |-> 0]

\* C18: when update_list answers 200, the list keeps its owner, keeps its
\* description (a text or NULL) when the body gives no description, keeps its
\* name when the body gives no name; the items and the other lists are as
\* they were.
C18_UpdateListPartial ==
    \A token \in ValidTokens, u \in PathUserIds, l \in ListIds, list_data \in AnyListUpdate :
        LET out == update_list(u, l, list_data, token, DB)
        IN  out.resp.status = 200 =>
                /\ DOMAIN out.db.lists = DOMAIN lists
                /\ out.db.lists[l].user_id = lists[l].user_id
                /\ ~Given(list_data, "description") =>
                       out.db.lists[l].description = lists[l].description
                /\ ~Given(list_data, "name") => out.db.lists[l].name = lists[l].name
                /\ out.db.items = items
                /\ \A k \in DOMAIN lists \ {l} : out.db.lists[k] = lists[k]

\* a list with a description and an item gets a new name and keeps both;
\* given a new description alone, it keeps its name
C18_Witness ==
    \E token \in ValidTokens, u \in PathUserIds, l \in DOMAIN lists :
        /\ lists[l].description \in Descriptions
        /\ ItemsOf(DB, l) # {}
        /\ update_list(u, l, [name |-> "Chores"], token, DB).db.lists[l]
               = [lists[l] EXCEPT !.name = "Chores"]
        /\ update_list(u, l, [description |-> "monthly"], token, DB).db.lists[l]
               = [lists[l] EXCEPT !.description = "monthly"]

\* C19: the owner of a list addresses, under that list, an item that exists
\* in a different list (the caller's own or not): update_list_item,
\* delete_list_item and toggle_item_completion answer 404 "Item not found"
\* and commit the database unchanged.
C19_ItemOfOtherList ==
    \A token \in ValidTokens, l \in ListIds, i \in DOMAIN items :
        (OwnedBy(DB, l, get_current_user(token, DB)) /\ items[i].list_id # l) =>
            /\ \A item_data \in AnyListItemUpdate :
                   update_list_item(l, i, item_data, token, DB) = Out(ItemNotFound, DB)
            /\ delete_list_item(l, i, token, DB) = Out(ItemNotFound, DB)
            /\ toggle_item_completion(l, i, token, DB) = Out(ItemNotFound, DB)

\* the caller owns two lists, an item is in one and is addressed under the
\* other: refused there, served under its own list
C19_Witness ==
    \E token \in ValidTokens, l, k \in DOMAIN lists, i \in DOMAIN items :
        /\ l # k
        /\ OwnedBy(DB, l, get_current_user(token, DB))
        /\ OwnedBy(DB, k, get_current_user(token, DB))
        /\ items[i].list_id = k
        /\ toggle_item_completion(l, i, token, DB).resp = ItemNotFound
        /\ toggle_item_completion(k, i, token, DB).resp.status = 200

\* C20: a list id no list has, or one of a list owned by another user, gets
\* 404 "List not found" from each of the five item handlers, for every item
\* id and body: the response carries no item and the database is committed
\* unchanged.
C20_ListCheckedFirst ==
    \A token \in ValidTokens, l \in ListIds :
        ~OwnedBy(DB, l, get_current_user(token, DB)) =>
            /\ get_list_items(l, token, DB) = Out(ListNotFound, DB)
            /\ \A item_data \in ListItemCreate :
                   create_list_item(l, item_data, token, DB) = Out(ListNotFound, DB)
            /\ \A i \in ItemIds :
                   /\ \A item_data \in AnyListItemUpdate :
                          update_list_item(l, i, item_data, token, DB) = Out(ListNotFound, DB)
                   /\ delete_list_item(l, i, token, DB) = Out(ListNotFound, DB)
                   /\ toggle_item_completion(l, i, token, DB) = Out(ListNotFound, DB)

\* another user's list holds an item; the caller addresses that list with
\* the item's id and with an id no item has, and a list id no list has
C20_Witness ==
    \E token \in ValidTokens, l \in DOMAIN lists, i \in DOMAIN items, j \in ItemIds, m \in ListIds :
        /\ lists[l].user_id # get_current_user(token, DB)
        /\ items[i].list_id = l
        /\ j \notin DOMAIN items
        /\ m \notin DOMAIN lists
        /\ get_list_items(l, token, DB).resp = ListNotFound
        /\ delete_list_item(l, i, token, DB).resp = ListNotFound
        /\ delete_list_item(l, j, token, DB).resp = ListNotFound
        /\ get_list_items(m, token, DB).resp = ListNotFound

\* the responses the list handlers give a caller who addresses a list of
\* another user, under the owner's user id or under the caller's own
ListMismatchResponses(token) ==
    LET caller == get_current_user(token, DB)
        theirs == {l \in DOMAIN lists : lists[l].user_id # caller}
        paths == {OwnSegment(caller)} \cup {OwnSegment(lists[l].user_id) : l \in theirs}
    IN  {get_list(u, l, token, DB).resp : u \in paths, l \in theirs}
        \cup {update_list(u, l, d, token, DB).resp : u \in paths, l \in theirs, d \in ListUpdate}
        \cup {delete_list(u, l, token, DB).resp : u \in paths, l \in theirs}

\* the responses the item handlers give a caller who addresses a list of
\* another user
ItemMismatchResponses(token) ==
    LET caller == get_current_user(token, DB)
        theirs == {l \in DOMAIN lists : lists[l].user_id # caller}
    IN  {get_list_items(l, token, DB).resp : l \in theirs}
        \cup {create_list_item(l, d, token, DB).resp : l \in theirs, d \in ListItemCreate}
        \cup {update_list_item(l, i, d, token, DB).resp :
                  l \in theirs, i \in ItemIds, d \in ListItemUpdate}
        \cup {delete_list_item(l, i, token, DB).resp : l \in theirs, i \in ItemIds}
        \cup {toggle_item_completion(l, i, token, DB).resp : l \in theirs, i \in ItemIds}

\* C21: a caller who is not the owner of the list a request addresses gets
\* the same status from every list handler and every item handler: never
\* 403 from one and 404 from another.
C21_OneMismatchError ==
    \A token \in ValidTokens :
        \A r1, r2 \in ListMismatchResponses(token) \cup ItemMismatchResponses(token) :
            r1.status = r2.status

\* C22: a list request whose path carries the id of a user other than the
\* caller gets 403 from each of the five list handlers, whether the list id
\* is one of a stored list or not, and the database is committed unchanged.
C22_PathMismatchForbidden ==
    \A token \in ValidTokens, u \in PathUserIds :
        (IsInt(u) /\ ParseInt(u) # get_current_user(token, DB)) =>
            /\ get_user_lists(u, token, DB) = Out(Forbidden, DB)
            /\ \A d \in ListCreate : create_list(u, d, token, DB) = Out(Forbidden, DB)
            /\ \A l \in ListIds :
                   /\ get_list(u, l, token, DB) = Out(Forbidden, DB)
                   /\ \A d \in AnyListUpdate : update_list(u, l, d, token, DB) = Out(Forbidden, DB)
                   /\ delete_list(u, l, token, DB) = Out(Forbidden, DB)

\* a caller addresses, under another user's id, a list of that user and a
\* list id no list has, and is refused both times
C22_Witness ==
    \E token \in ValidTokens, l \in DOMAIN lists, m \in ListIds :
        /\ lists[l].user_id # get_current_user(token, DB)
        /\ m \notin DOMAIN lists
        /\ delete_list(OwnSegment(lists[l].user_id), l, token, DB).resp = Forbidden
        /\ delete_list(OwnSegment(lists[l].user_id), m, token, DB).resp = Forbidden

\* C23: when create_list answers 201, the database it commits has one list
\* more; the new list's user_id is the id the token resolves to, its id is
\* the id of no list stored before, and the response shows that list.
C23_CreateListOwner ==
    \A token \in ValidTokens, u \in PathUserIds, d \in ListCreate :
        LET out == create_list(u, d, token, DB)
            added == DOMAIN out.db.lists \ DOMAIN lists
        IN  out.resp.status = 201 =>
                /\ Cardinality(added) = 1
                /\ \A l \in added :
                       /\ out.db.lists[l].user_id = get_current_user(token, DB)
                       /\ out.resp.body = {ListResponse(out.db, l)}
                /\ \A l \in DOMAIN lists : out.db.lists[l] = lists[l]

\* with a list of another user stored, a caller creates a list and owns it;
\* the same request under the other user's id is refused
C23_Witness ==
    \E token \in ValidTokens, l \in DOMAIN lists, d \in ListCreate :
        /\ lists[l].user_id # get_current_user(token, DB)
        /\ create_list(OwnSegment(get_current_user(token, DB)), d, token, DB).resp.status = 201
        /\ create_list(OwnSegment(lists[l].user_id), d, token, DB).resp.status = 403

\* C24: get_user_lists, called under the caller's own user id, answers 200
\* with exactly the stored lists whose user_id is the caller's: none of
\* another user, none missing, and the empty collection when there is none.
C24_ListsOfCaller ==
    \A token \in ValidTokens :
        LET caller == get_current_user(token, DB)
            out == get_user_lists(OwnSegment(caller), token, DB)
        IN  /\ out.resp.status = 200
            /\ {b.id : b \in out.resp.body} = {l \in DOMAIN lists : lists[l].user_id = caller}
            /\ \A b \in out.resp.body : b = ListResponse(DB, b.id)
            /\ out.db = DB

\* one user owns a list and gets it; the other owns none and gets 200 with
\* nothing in it
C24_Witness ==
    \E owner, other \in ValidTokens :
        /\ get_user_lists(OwnSegment(get_current_user(owner, DB)), owner, DB).resp.body # {}
        /\ get_user_lists(OwnSegment(get_current_user(other, DB)), other, DB).resp
               = Response(200, "", {})

\* C29: in every step, a list stored before and after the step has the same
\* user_id before and after it, whichever handler served whichever user.
C29_OwnerNeverChanges ==
    [][\A l \in DOMAIN lists \cap DOMAIN lists' : lists'[l].user_id = lists[l].user_id]_vars

\* both users own a list, and each owner's update of their list is served
C29_Witness ==
    \E l, k \in DOMAIN lists :
        /\ lists[l].user_id # lists[k].user_id
        /\ \A m \in {l, k} :
               \E token \in ValidTokens, list_data \in ListUpdate :
                   /\ list_data # << >>
                   /\ update_list(OwnSegment(lists[m].user_id), m, list_data, token, DB).resp.status
                          = 200

\* the items whose is_completed differs between now and the database out commits
CompletionChanged(out) ==
    {i \in DOMAIN items \cap DOMAIN out.db.items :
        out.db.items[i].is_completed # items[i].is_completed}

----------------------------------------------------------------------------
(* Properties of tokens over time (checked under SpecClock) *)

\* C12: logout with a valid token answers 200 and commits users, lists and
\* items unchanged; in the database it leaves, the same token still resolves
\* to the same user and is accepted again.
C12_LogoutChangesNothing ==
    \A token \in ValidTokens :
        LET out == logout(token, DB)
        IN  /\ out.resp = Response(200, "Successfully logged out", {})
            /\ out.db = DB
            /\ get_current_user(token, out.db) = get_current_user(token, DB)
            /\ logout(token, out.db).resp.status = 200

\* both users hold a token issued after time has passed, and each logs out
C12_Witness ==
    /\ now > 0
    /\ \A u \in DOMAIN users :
           \E token \in tokens : /\ get_current_user(token, DB) = u
                                 /\ token.exp > ACCESS_TOKEN_EXPIRE_MINUTES
                                 /\ logout(token, DB).resp.status = 200

\* C13: a token login issues at time t carries expiry t + 30 minutes
\* (access_token_expire_minutes); once the clock is past the expiry of a
\* token, every protected request presenting it answers 401; before the
\* expiry, with its subject registered, the token is accepted.
C13_TokenExpiry ==
    /\ \A form_data \in OAuth2PasswordRequestForm :
           \A b \in login(form_data, DB).resp.body :
               /\ b.access_token.sub = form_data.username
               /\ b.access_token.exp = now + ACCESS_TOKEN_EXPIRE_MINUTES
    /\ \A token \in tokens :
           /\ token.exp - ACCESS_TOKEN_EXPIRE_MINUTES \in 0..now
           /\ now > token.exp =>
                  \A out \in ProtectedOutcomes(token) : out.resp = Unauthorized /\ out.db = DB
           /\ (now < token.exp /\ UserByUsername(DB, token.sub) # {}) =>
                  /\ get_current_user(token, DB) \in UserByUsername(DB, token.sub)
                  /\ logout(token, DB).resp.status = 200
                  /\ get_user_lists(OwnSegment(get_current_user(token, DB)), token, DB).resp.status
                         = 200

\* the clock is past the expiry of one token a client holds and before the
\* expiry of another: the first is refused, the second accepted
C13_Witness ==
    \E old, new \in tokens :
        /\ now > old.exp
        /\ now < new.exp
        /\ logout(old, DB).resp = Unauthorized
        /\ logout(new, DB).resp.status = 200

----------------------------------------------------------------------------
(* Properties of tokens of removed users (checked under SpecUsers) *)

\* C14 as claimed: once the users row a token was issued for is removed,
\* every request presenting the token answers 401 from then on, whatever
\* request is served in between.
C14_RemovedUserNeverAgain ==
    \A token \in tokens, u \in DOMAIN users :
        get_current_user(token, DB) = u =>
            LET removed == [DB EXCEPT !.users = Delete(users, {u})]
            IN  /\ logout(token, removed).resp = Unauthorized
                /\ \A user_data \in UserRegister :
                       logout(token, register(user_data, removed).db).resp = Unauthorized

\* C14: a correctly signed, unexpired token whose username no users row
\* carries (the row it was issued for was removed and the username not
\* registered again) gets 401 from every protected route, and nothing is
\* committed.
C14_RemovedUserUnauthorized ==
    \A token \in tokens :
        UserByUsername(DB, token.sub) = {} =>
            \A out \in ProtectedOutcomes(token) : out.resp = Unauthorized /\ out.db = DB

\* a client holds an unexpired token of a removed user while another user
\* is still registered, and is refused
C14_Witness ==
    \E token \in tokens :
        /\ token.sig = "valid"
        /\ now < token.exp
        /\ UserByUsername(DB, token.sub) = {}
        /\ DOMAIN users # {}
        /\ logout(token, DB).resp = Unauthorized

----------------------------------------------------------------------------
(* Requests served side by side (checked under SpecRace, SpecRegisterRace) *)

\* with no commit of another worker in between, the two steps of a handler
\* are the handler
QueryThenFlush(unit, out, handled) ==
    handled = IF unit.op = "refused" THEN Out(unit.resp, DB) ELSE out

StepsAreHandlers ==
    /\ \A user_data \in UserRegister :
           LET unit == register_query(user_data, DB)
           IN  QueryThenFlush(unit, register_flush(unit, DB), register(user_data, DB))
    /\ \A token \in Presentable, l \in ListIds :
           /\ \A u \in PathUserIds :
                  LET unit == delete_list_query(u, l, token, DB)
                  IN  QueryThenFlush(unit, delete_list_flush(unit, DB),
                                     delete_list(u, l, token, DB))
           /\ \A d \in ListItemCreate :
                  LET unit == create_list_item_query(l, d, token, DB)
                  IN  QueryThenFlush(unit, create_list_item_flush(unit, DB),
                                     create_list_item(l, d, token, DB))
           /\ \A i \in ItemIds :
                  /\ \A d \in AnyListItemUpdate :
                         LET unit == update_list_item_query(l, i, d, token, DB)
                         IN  QueryThenFlush(unit, update_list_item_flush(unit, DB),
                                            update_list_item(l, i, d, token, DB))
                  /\ LET unit == toggle_item_completion_query(l, i, token, DB)
                     IN  QueryThenFlush(unit, toggle_item_completion_flush(unit, DB),
                                        toggle_item_completion(l, i, token, DB))

\* C25: deleteList is atomic with respect to the requests served beside it:
\* in no step does a list leave the store while an item of it stays stored,
\* and in no step do items of a list leave the store while the list stays
C25_DeleteListAtomic ==
    [][/\ \A l \in DOMAIN lists \ DOMAIN lists' :
              \A i \in DOMAIN items' : items'[i].list_id # l
       /\ \A i \in DOMAIN items \ DOMAIN items' :
              items[i].list_id \notin DOMAIN lists']_vars

\* C26: once the createItem and the deleteList that ran side by side have
\* both finished, no stored item names a list that is not stored
C26_NoItemOutlivesList ==
    (\A w \in Workers : inflight[w] = Idle)
        => \A i \in DOMAIN items : items[i].list_id \in DOMAIN lists

\* the units w and v hold were both read from the rows stored now
BothRead(w, v, op) ==
    /\ w # v
    /\ inflight[w].op = op
    /\ inflight[v].op = op
    /\ inflight[w].item_id = inflight[v].item_id
    /\ inflight[w].item_id \in DOMAIN items

C28_RegisterRaceHandled ==
    \A w, v \in Workers :
        /\ w # v
        /\ inflight[w].op = "register"
        /\ inflight[v].op = "register"
        /\ inflight[w].username = inflight[v].username
              \/ inflight[w].email = inflight[v].email
        => LET first == register_flush(inflight[w], DB)
               second == register_flush(inflight[v], first.db)
           IN  /\ first.resp.status = 201
               /\ Cardinality(DOMAIN second.db.users) <= Cardinality(DOMAIN users) + 1
               /\ second.resp.status = 400

====
